---- MODULE Spec2Model ----
(***************************************************************************)
(* Model of src/udev/udev-event.c: the per-event orchestrator              *)
(* (udev_event_execute_rules), the run-list executor                       *)
(* (udev_event_execute_run) and the supervised spawner (udev_event_spawn,  *)
(* spawn_wait and its sd-event callbacks).                                 *)
(***************************************************************************)
EXTENDS Integers, Sequences, FiniteSets, TLC

\* ---------------------------------------------------------------- bounds
MaxRun == 2          \* most entries the rules put on run_list in one event
MaxTime == 3         \* a spawn called alone is followed while the clock is in 0..MaxTime
MaxAge == 2          \* an event of the worker is followed until it is MaxAge old
MaxTimeout == 2      \* timeout_usec and timeout_warn_usec range over 0..MaxTimeout
MaxResult == 2       \* ressize of a result buffer ranges over 1..MaxResult
MaxOut == 3          \* a command writes 0..MaxOut bytes to its stdout
PipeSize == 1        \* bytes a pipe holds before the writer blocks
MaxParts == 3        \* pieces a template is made of
MaxSize == 3         \* a small dest of udev_event_apply_format has 1..MaxSize bytes

\* ------------------------------------------------------------- constants
EIO == 5             \* errno value behind -EIO
NUL == 0             \* the byte '\0'; the k-th byte a child writes is the number k
Junk == -1           \* a byte other than NUL that the caller left in its buffer
BufSize == 4096      \* sizeof(buf) of on_spawn_io
UTIL_PATH_SIZE == 1024 \* sizeof(command) of udev_event_execute_run
IFNAMSIZ == 16       \* sizeof(name) of rename_netif
Mode0660 == 432      \* 0660, the default mode if a group is assigned
Mode0600 == 384      \* 0600, the default mode
Mode0640 == 416      \* 0640, a mode the kernel supplies for a node
Mode0644 == 420      \* 0644, a mode a rule sets with MODE=
MaxId == 1           \* largest uid and gid of the model

Actions == {"add", "change", "remove"}
Tags == {"systemd"}
\* Strings are sequences of characters. A NULL string.
NullStr == <<"NULL">>
NoName == NullStr
KernelName == <<"e", "t", "h", "0">>
DiskName == <<"s", "d", "a", "1">>
LongName == <<"v", "e", "r", "y", "l", "o", "n", "g", "n", "e", "t", "n", "a", "m", "e", "0">>
Names == {NoName, KernelName, LongName}
RunKinds == {"builtin", "external"}
ChildPlans == {"exit0", "exit1", "killed", "dumped", "never"}
NoTimer == -1

VARIABLES
    pc,           \* position of the worker / of the spawner
    action,       \* udev_device_get_action(dev)
    subsystem,    \* udev_device_get_subsystem(dev) != NULL
    major,        \* major(udev_device_get_devnum(dev))
    ifindex,      \* udev_device_get_ifindex(dev)
    kname,        \* interface name held by the kernel
    sysname,      \* udev_device_get_sysname(dev), the in-memory name
    name,         \* event->name
    dev_db,       \* event->dev_db != NULL
    devTags,      \* tags of the in-memory device
    dbFile,       \* the device's db file exists
    tagIndex,     \* tags under which the device is filed in the tag index
    watch,        \* an inotify watch on the device node is active
    initialized,  \* udev_device_set_is_initialized was called on dev
    rulesErr,     \* the rules engine met an error while applying the rules
    run_list,     \* event->run_list, as the sequence of insertions
    cur,          \* the run_list entry whose command is being spawned, 0 if none
    executed,     \* the entries attempted so far: <<index, command, failed>>
    trace,        \* the collaborator calls made for this event, in order
    now,          \* CLOCK_MONOTONIC
    birth,        \* event->birth_usec
    timeout_usec, \* the kill timeout handed to the worker
    timeout_warn_usec,
    logInfo,      \* log_get_max_level() >= LOG_INFO
    caller,       \* who called udev_event_spawn: "run" or "rules"
    spawn,        \* the arguments of udev_event_spawn, then the Spawn struct
    child,        \* "none", "running", "zombie" (terminated, not yet dispatched), "reaped"
    plan,         \* what the child does when left alone
    si,           \* the siginfo of the terminated child
    killAt,       \* absolute deadline of the kill timer, NoTimer when not armed
    warnAt,       \* absolute deadline of the warn timer, NoTimer when not armed
    killFired,    \* times on_spawn_timeout ran
    warnFired,    \* times on_spawn_timeout_warning ran
    killHit,      \* the SIGKILL of on_spawn_timeout terminated a running child
    exit_code,    \* value given to sd_event_exit
    ret,          \* value udev_event_spawn returned, meaningful at "spawn_ret"
    result,       \* the caller's result buffer, byte by byte; <<>> when result is NULL
    result_len,   \* spawn.result_len
    outpipe,      \* the bytes in the stdout pipe, written and not yet read
    written,      \* the bytes the child has written to its stdout so far
    total,        \* the bytes the command writes to its stdout before it ends
    rules,        \* the keys of the loaded rules: "basic", or "perms" with OWNER/GROUP/MODE
    perm,         \* event->owner_set, group_set, mode_set, uid, gid, mode
    devnode,      \* udev_device_get_devnode_uid, _gid, _mode of dev
    node_add,     \* the arguments of the call of udev_node_add of this event
    fpc,          \* position of a caller of udev_event_apply_format
    src,          \* udev_event_apply_format: the template
    size,         \* udev_event_apply_format: the size of dest
    replace_whitespace,
    program_result, \* event->program_result
    dest          \* what udev_event_apply_format wrote and returned

evvars == <<action, subsystem, major, ifindex, kname, sysname, name, dev_db, devTags,
            dbFile, tagIndex, watch, initialized, rulesErr>>
runvars == <<run_list, cur, executed>>
cfgvars == <<timeout_usec, timeout_warn_usec, logInfo>>
spvars == <<caller, spawn, child, plan, si, killAt, warnAt, killFired, warnFired,
            killHit, exit_code, ret>>
iovars == <<result, result_len, outpipe, written, total>>
permvars == <<rules, perm, devnode, node_add>>
fmtvars == <<fpc, src, size, replace_whitespace, program_result, dest>>
vars == <<pc, evvars, runvars, trace, now, birth, cfgvars, spvars, fmtvars, permvars,
         iovars>>

\* udev_event_spawn's arguments: cmd, accept_failure, the timeouts, and whether a
\* result buffer is given. The other fields are set when the Spawn struct is.
SpawnArgs(cmd, accept, tmo, warn, res) ==
    [cmd |-> cmd, accept_failure |-> accept, timeout_usec |-> tmo,
     timeout_warn_usec |-> warn, event_birth_usec |-> 0, fd_stdout |-> FALSE,
     fd_stderr |-> FALSE, result |-> res]
NoSpawn == SpawnArgs(<<>>, FALSE, 0, 0, FALSE)
NoSi == [code |-> "none", status |-> 0]

\* The event's permissions as udev_event_new leaves them (new0).
NoPerm == [owner_set |-> FALSE, group_set |-> FALSE, mode_set |-> FALSE,
           uid |-> 0, gid |-> 0, mode |-> 0]
\* fails: the node manager cannot do its work on this device's node (udev_node_add
\* returns nothing, so a failure is known to the node manager alone).
NoDevnode == [uid |-> 0, gid |-> 0, mode |-> 0, fails |-> FALSE]
NoNodeAdd == [called |-> FALSE, apply |-> FALSE, mode |-> 0, uid |-> 0, gid |-> 0,
              failed |-> FALSE]

\* The output of a call of udev_event_apply_format that has not been made.
NoDest == [out |-> <<>>, l |-> 0, hw |-> 0]

Last(s) == s[Len(s)]
Has(s, x) == \E i \in 1..Len(s) : s[i] = x
\* every occurrence of x comes before every occurrence of y
Before(s, x, y) == \A i, j \in 1..Len(s) : (s[i] = x /\ s[j] = y) => i < j

\* ------------------------------------------------------------ the device
\* A device is a plain one, a block device (a node, no interface) or a
\* network interface (no node).
DeviceKinds == {<<0, 0>>, <<8, 0>>, <<0, 2>>}

\* Statement order of the remove branch of udev_event_execute_rules.
RemoveSteps_skipdb == <<"rm_rules", "rm_node">>
RemoveSteps_rulesfirst == <<"rm_rules", "rm_db", "rm_node">>
RemoveSteps == <<"rm_db", "rm_rules", "rm_node">>

\* Statement order of the non-remove branch of udev_event_execute_rules.
NonRemoveSteps_dbfirst == <<"clone", "rules", "rename", "db", "node">>
NonRemoveSteps == <<"clone", "rules", "rename", "node", "db">>

\* The statement following p in a branch; "ret" is the return of the function.
StepAfter(steps, p) ==
    LET i == CHOOSE k \in 1..Len(steps) : steps[k] = p
    IN  IF i = Len(steps) THEN "ret" ELSE steps[i + 1]

\* major(udev_device_get_devnum(dev)) != 0: the device has a node.
HasNode_any(m) == TRUE
HasNode(m) == m # 0

\* udev_event_new: a fresh event for a uevent of the device.
NewEvent ==
    /\ pc \in {"idle", "done"}
    /\ \E a \in Actions : action' = a
    /\ pc' = "exec"
    /\ sysname' = kname
    /\ name' = NoName
    /\ dev_db' = FALSE
    /\ devTags' = {}
    /\ initialized' = FALSE
    /\ rulesErr' = FALSE
    /\ run_list' = <<>> /\ cur' = 0 /\ executed' = <<>>
    /\ trace' = <<>>
    /\ now' = 0 /\ birth' = 0
    \* after an event the worker may have put a watch on the node again
    /\ \E w \in {watch, pc = "done" /\ major # 0 /\ action # "remove" /\ subsystem} : watch' = w
    /\ perm' = NoPerm /\ node_add' = NoNodeAdd
    /\ UNCHANGED <<subsystem, major, ifindex, kname, dbFile, tagIndex, cfgvars, fmtvars,
                   rules, devnode, iovars, spvars>>

\* udev_event_execute_rules, the guard and the choice of the branch.
ExecuteRules ==
    /\ pc = "exec"
    /\ pc' = IF ~subsystem THEN "ret"
             ELSE IF action = "remove" THEN RemoveSteps[1] ELSE NonRemoveSteps[1]
    /\ UNCHANGED <<evvars, runvars, trace, now, birth, cfgvars, fmtvars, permvars, iovars, spvars>>

\* remove: udev_device_read_db, udev_device_tag_index(dev, NULL, false),
\* udev_device_delete_db, udev_watch_end.
RemoveDb ==
    /\ pc = "rm_db"
    /\ pc' = StepAfter(RemoveSteps, "rm_db")
    /\ devTags' = devTags \cup tagIndex
    /\ tagIndex' = {}
    /\ dbFile' = FALSE
    /\ watch' = IF HasNode(major) THEN FALSE ELSE watch
    /\ trace' = trace \o <<"read_db", "tag_index", "delete_db">>
                      \o (IF HasNode(major) THEN <<"watch_end">> ELSE <<>>)
    /\ UNCHANGED <<action, subsystem, major, ifindex, kname, sysname, name, dev_db,
                   initialized, rulesErr, runvars, now, birth, cfgvars, fmtvars, permvars, iovars, spvars>>

\* The permissions the rules may leave in the event: OWNER=, GROUP= and MODE=
\* each set a value and its *_set flag; a value without its flag stays 0.
RulePerms ==
    {[owner_set |-> o, group_set |-> g, mode_set |-> m,
      uid |-> IF o THEN u ELSE 0, gid |-> IF g THEN gg ELSE 0,
      mode |-> IF m THEN Mode0644 ELSE 0] :
        o \in BOOLEAN, g \in BOOLEAN, m \in BOOLEAN, u \in 0..MaxId, gg \in 0..MaxId}

\* What udev_rules_apply_to_event may leave in the event: a name (the rules
\* name network interfaces only), tags, the run_list, permissions, and whether
\* the engine met an error. The orchestrator does not look at any result of
\* the call.
RulesEffect ==
    /\ \E p \in (IF rules = "perms" THEN RulePerms ELSE {perm}) : perm' = p
    /\ \E n \in (IF ifindex > 0 THEN Names ELSE {NoName}) : name' = n
    /\ \E t \in SUBSET Tags : devTags' = devTags \cup t
    /\ \E k \in 0..MaxRun : \E rl \in [1..k -> RunKinds] : run_list' = rl
    /\ \E e \in BOOLEAN : rulesErr' = e
    /\ trace' = Append(trace, "rules")
    /\ UNCHANGED <<action, subsystem, major, ifindex, kname, sysname, dev_db, dbFile,
                   tagIndex, watch, initialized, cur, executed, now, birth,
                   cfgvars, fmtvars, rules, devnode, node_add, iovars, spvars>>

\* remove: udev_rules_apply_to_event.
RemoveRules ==
    /\ pc = "rm_rules"
    /\ pc' = StepAfter(RemoveSteps, "rm_rules")
    /\ RulesEffect

\* remove: udev_node_remove.
RemoveNode ==
    /\ pc = "rm_node"
    /\ pc' = StepAfter(RemoveSteps, "rm_node")
    /\ trace' = IF HasNode(major) THEN Append(trace, "node_remove") ELSE trace
    /\ UNCHANGED <<evvars, runvars, now, birth, cfgvars, fmtvars, permvars, iovars, spvars>>

\* non-remove: udev_device_clone_with_db, udev_watch_end on the clone.
CloneDb ==
    /\ pc = "clone"
    /\ pc' = StepAfter(NonRemoveSteps, "clone")
    /\ \E c \in BOOLEAN :
        /\ dev_db' = c
        /\ watch' = IF c /\ HasNode(major) THEN FALSE ELSE watch
        /\ trace' = IF c /\ HasNode(major) THEN Append(trace, "watch_end") ELSE trace
    /\ UNCHANGED <<action, subsystem, major, ifindex, kname, sysname, name, devTags,
                   dbFile, tagIndex, initialized, rulesErr, runvars, now, birth,
                   cfgvars, fmtvars, permvars, iovars, spvars>>

\* non-remove: udev_rules_apply_to_event.
ApplyRules ==
    /\ pc = "rules"
    /\ pc' = StepAfter(NonRemoveSteps, "rules")
    /\ RulesEffect

\* strscpy(dest, size, str): str cut to what fits dest with its NUL.
Strscpy(capacity, str) ==
    IF Len(str) >= capacity THEN SubSeq(str, 1, capacity - 1) ELSE str

\* The statement after the rename: both failure branches log a warning and
\* fall through to the node apply.
AfterRename_fatal(failed) ==
    IF failed THEN "ret" ELSE StepAfter(NonRemoveSteps, "rename")
AfterRename(failed) == StepAfter(NonRemoveSteps, "rename")

\* non-remove: the rename of a new network interface. rename_netif copies
\* event->name into name[IFNAMSIZ] and hands that to rtnl_set_link_name;
\* udev_device_rename is then called with event->name. Each of the two may
\* fail, and a failure is logged.
RenameNetif ==
    /\ pc = "rename"
    /\ IF ifindex > 0 /\ action = "add" /\ name # NoName /\ name # sysname
       THEN \E rtnl \in BOOLEAN, ren \in BOOLEAN :
                /\ kname' = IF rtnl THEN Strscpy(IFNAMSIZ, name) ELSE kname
                /\ sysname' = IF rtnl /\ ren THEN name ELSE sysname
                /\ trace' = trace \o <<"rename">>
                                  \o (IF rtnl /\ ren THEN <<>> ELSE <<"rename_warn">>)
                /\ pc' = AfterRename(~(rtnl /\ ren))
       ELSE /\ pc' = AfterRename(FALSE)
            /\ UNCHANGED <<trace, kname, sysname>>
    /\ UNCHANGED <<action, subsystem, major, ifindex, name, dev_db, devTags, dbFile,
                   tagIndex, watch, initialized, rulesErr, runvars, now, birth,
                   cfgvars, fmtvars, permvars, iovars, spvars>>

\* The mode of a node for which the rules set none: the kernel's, or a default
\* that depends on the group.
DefaultMode_nogroup(kmode, gid) ==
    IF kmode > 0 THEN kmode ELSE Mode0600
DefaultMode(kmode, gid) ==
    IF kmode > 0 THEN kmode ELSE IF gid > 0 THEN Mode0660 ELSE Mode0600

\* The event's uid, gid and mode after the defaults are filled in.
NodePerm(p, k) ==
    LET uid == IF ~p.owner_set THEN k.uid ELSE p.uid
        gid == IF ~p.group_set THEN k.gid ELSE p.gid
        mode == IF ~p.mode_set THEN DefaultMode(k.mode, gid) ELSE p.mode
    IN  [p EXCEPT !.uid = uid, !.gid = gid, !.mode = mode]

\* apply, the second argument of udev_node_add.
NodeApplyFlag(a, p) == a = "add" \/ p.owner_set \/ p.group_set \/ p.mode_set

\* non-remove: udev_node_update_old_links and udev_node_add.
NodeApply ==
    /\ pc = "node"
    /\ pc' = StepAfter(NonRemoveSteps, "node")
    /\ trace' = IF HasNode(major)
                THEN trace \o (IF dev_db THEN <<"update_old_links">> ELSE <<>>)
                           \o <<"node_add">>
                ELSE trace
    /\ perm' = IF HasNode(major) THEN NodePerm(perm, devnode) ELSE perm
    /\ node_add' = IF HasNode(major)
                   THEN [called |-> TRUE, apply |-> NodeApplyFlag(action, perm),
                         mode |-> perm'.mode, uid |-> perm'.uid, gid |-> perm'.gid,
                         failed |-> devnode.fails]
                   ELSE node_add
    /\ UNCHANGED <<evvars, runvars, now, birth, cfgvars, fmtvars, rules, devnode, iovars, spvars>>

\* non-remove: udev_device_tag_index(dev, dev_db, true), udev_device_update_db,
\* udev_device_set_is_initialized, unref of dev_db.
DbWrite ==
    /\ pc = "db"
    /\ pc' = StepAfter(NonRemoveSteps, "db")
    /\ tagIndex' = devTags
    /\ dbFile' = TRUE
    /\ initialized' = TRUE
    /\ dev_db' = FALSE
    /\ trace' = trace \o <<"tag_index", "update_db">>
    /\ UNCHANGED <<action, subsystem, major, ifindex, kname, sysname, name, devTags,
                   watch, rulesErr, runvars, now, birth, cfgvars, fmtvars, permvars, iovars, spvars>>

\* No udev_event_spawn is under way.
SpawnIdle ==
    /\ caller = "run" /\ spawn = NoSpawn /\ child = "none" /\ plan = "never"
    /\ si = NoSi /\ killAt = NoTimer /\ warnAt = NoTimer
    /\ killFired = 0 /\ warnFired = 0 /\ killHit = FALSE
    /\ exit_code = 0 /\ ret = 0
    /\ result_len = 0 /\ outpipe = <<>> /\ written = 0

\* The locals of udev_event_spawn as they are when no spawn is under way.
SpawnReset ==
    /\ caller' = "run" /\ spawn' = NoSpawn /\ child' = "none" /\ plan' = "never"
    /\ si' = NoSi /\ killAt' = NoTimer /\ warnAt' = NoTimer
    /\ killFired' = 0 /\ warnFired' = 0 /\ killHit' = FALSE
    /\ exit_code' = 0 /\ ret' = 0
    /\ result_len' = 0 /\ outpipe' = <<>> /\ written' = 0

\* --------------------------------------------------------- the run list
\* HASHMAP_FOREACH_KEY over event->run_list, a Hashmap keyed by the command's
\* pointer: the iteration visits every entry once, in bucket order, which the
\* hash of the keys decides and the order of insertion does not. The entries
\* that may come next are those not visited yet.
Visited == {executed[k][1] : k \in 1..Len(executed)}
NextEntries == (1..Len(run_list)) \ Visited

\* The loop of udev_event_execute_run has no break and no return: it ends
\* when the iteration is exhausted, whatever the entries returned.
LoopEnds_abort(ex) == Len(ex) = Len(run_list) \/ (ex # <<>> /\ Last(ex)[3])
LoopEnds(ex) == Len(ex) = Len(run_list)

\* SUBST_KERNEL: every command template of the model is "$kernel", which
\* expands to the device's sysname as it is when the entry is run.
SubstKernel == sysname

\* The worker calls udev_event_execute_run once udev_event_execute_rules has
\* returned.
ExecuteRun ==
    /\ pc = "ret"
    /\ pc' = "run"
    /\ cur' = 0
    /\ UNCHANGED <<evvars, run_list, executed, trace, now, birth, cfgvars, fmtvars, permvars, iovars, spvars>>

\* One entry of the loop, a builtin: udev_event_apply_format, udev_builtin_run.
RunBuiltin ==
    /\ pc = "run" /\ ~LoopEnds(executed)
    /\ \E i \in NextEntries :
        /\ run_list[i] = "builtin"
        /\ \E failed \in BOOLEAN :
            executed' = Append(executed, <<i, SubstKernel, failed>>)
    /\ trace' = Append(trace, "run")
    /\ UNCHANGED <<pc, evvars, run_list, cur, now, birth, cfgvars, fmtvars, permvars, iovars, spvars>>

\* One entry of the loop, an external command: udev_event_apply_format, then
\* udev_event_spawn(event, timeout_usec, timeout_warn_usec, false, command, NULL, 0).
RunExternal ==
    /\ pc = "run" /\ ~LoopEnds(executed)
    /\ \E i \in NextEntries :
        /\ run_list[i] = "external"
        /\ cur' = i
    /\ pc' = "spawn"
    /\ caller' = "run"
    /\ spawn' = SpawnArgs(SubstKernel, FALSE, timeout_usec, timeout_warn_usec, FALSE)
    /\ trace' = Append(trace, "run")
    /\ UNCHANGED <<evvars, run_list, executed, now, birth, cfgvars, fmtvars, permvars, iovars, child, plan, si,
                   killAt, warnAt, killFired, warnFired, killHit, exit_code, ret>>

\* udev_event_spawn has returned to the loop, which ignores what it returned.
RunExternalReturned ==
    /\ pc = "spawn_ret" /\ caller = "run"
    /\ pc' = "run"
    /\ executed' = Append(executed, <<cur, spawn.cmd, ret < 0>>)
    /\ cur' = 0
    \* the locals of udev_event_spawn are gone
    /\ SpawnReset
    /\ UNCHANGED <<evvars, run_list, trace, now, birth, cfgvars, fmtvars, permvars,
                   result, total>>

\* The iteration is exhausted: udev_event_execute_run returns.
RunDone ==
    /\ pc = "run" /\ LoopEnds(executed)
    /\ pc' = "done"
    /\ UNCHANGED <<evvars, runvars, trace, now, birth, cfgvars, fmtvars, permvars, iovars, spvars>>

\* ----------------------------------------------------------- the spawner
\* The last clock value at which the spawn under way is followed.
Horizon == IF caller = "run" THEN MaxAge ELSE MaxTime

\* spawn_wait: what is left of a timeout at the event's age.
RemainingTimeout_noage(timeout, age) == timeout
RemainingTimeout(timeout, age) == timeout - age

\* spawn_wait: the conditions under which the kill timer and the warn timer
\* are added, age being the event's age when the clock is read.
KillArmed(timeout, age) == timeout > 0 /\ age < timeout
WarnArmed_nokill(timeout, warn, age) ==
    KillArmed(timeout, age) /\ warn > 0 /\ warn > age
WarnArmed(timeout, warn, age) ==
    KillArmed(timeout, age) /\ warn > 0 /\ warn < timeout /\ warn > age

\* spawn_wait: the absolute time handed to sd_event_add_time.
TimerDeadline(usec, remaining) == usec + remaining

\* on_spawn_sigchld: the value handed to sd_event_exit for a siginfo.
SigchldExitCode(info, accept_failure) ==
    IF info.code = "CLD_EXITED" /\ info.status = 0 THEN 0 ELSE -EIO

\* The siginfo of a child that terminates following its plan.
PlanInfo(p) ==
    CASE p = "exit0" -> [code |-> "CLD_EXITED", status |-> 0]
      [] p = "exit1" -> [code |-> "CLD_EXITED", status |-> 1]
      [] p = "killed" -> [code |-> "CLD_KILLED", status |-> 15]
      [] p = "dumped" -> [code |-> "CLD_DUMPED", status |-> 11]

\* strv_split_full(cmd, NULL, SPLIT_QUOTES|SPLIT_RELAX) for a command without
\* quotes and backslashes: the words between runs of whitespace. A command
\* without a word gives an empty vector, whose argv[0] is its NULL end.
WordChar(c) == c \notin {" ", "\t", "\n"}
RECURSIVE SkipSpace(_), WordEnd(_), StrvSplit(_)
SkipSpace(str) ==
    IF str # <<>> /\ ~WordChar(str[1]) THEN SkipSpace(Tail(str)) ELSE str
WordEnd(str) ==
    IF str # <<>> /\ WordChar(str[1]) THEN 1 + WordEnd(Tail(str)) ELSE 0
StrvSplit(str) ==
    LET w == SkipSpace(str)
        n == WordEnd(w)
    IN  IF w = <<>> THEN <<>>
        ELSE <<SubSeq(w, 1, n)>> \o StrvSplit(SubSeq(w, n + 1, Len(w)))

\* What udev_event_spawn can do after the split. There is no test for an
\* empty vector: path_is_absolute(argv[0]) is called with NULL, and reading
\* through it is undefined: the worker dies of SIGSEGV there, or the read
\* gives some byte and the function goes on to the fork.
SpawnOutcomes(argv) ==
    IF argv = <<>> THEN {"segv", "forked", "fork_failed"} ELSE {"forked", "fork_failed"}

\* udev_event_spawn up to the call of spawn_wait: the pipes, the split of the
\* command, the fork, the Spawn struct.
UdevEventSpawn ==
    /\ pc = "spawn"
    /\ \E outcome \in SpawnOutcomes(StrvSplit(spawn.cmd)) :
        IF outcome = "forked"
        THEN /\ pc' = "wait"
             /\ child' = "running"
             /\ \E p \in ChildPlans : plan' = p
             /\ spawn' = [spawn EXCEPT !.event_birth_usec = birth,
                                       !.fd_stdout = spawn.result \/ logInfo,
                                       !.fd_stderr = logInfo]
             /\ ret' = 0
        ELSE /\ pc' = IF outcome = "segv" THEN "crashed" ELSE "spawn_ret"
             /\ ret' = -11             \* safe_fork failed, -EAGAIN
             /\ UNCHANGED <<child, plan, spawn>>
    /\ si' = NoSi
    /\ killAt' = NoTimer /\ warnAt' = NoTimer
    /\ killFired' = 0 /\ warnFired' = 0 /\ killHit' = FALSE
    /\ exit_code' = 0
    /\ result_len' = 0
    /\ outpipe' = <<>> /\ written' = 0
    /\ UNCHANGED <<evvars, runvars, trace, now, birth, cfgvars, fmtvars, permvars,
                   result, total, caller>>

\* spawn_wait up to sd_event_loop: the clock is read, the timers and the io
\* and child sources are added. sd_event_add_io refuses a pipe end that was not
\* created (fd -1) with -EBADF, and spawn_wait returns it.
SpawnWait ==
    /\ pc = "wait"
    /\ \E usec \in now..Horizon :
        LET age == usec - spawn.event_birth_usec
            armKill == KillArmed(spawn.timeout_usec, age)
            armWarn == WarnArmed(spawn.timeout_usec, spawn.timeout_warn_usec, age)
            warnLeft == IF armWarn THEN RemainingTimeout(spawn.timeout_warn_usec, age)
                        ELSE spawn.timeout_warn_usec
            killLeft == IF armKill THEN RemainingTimeout(spawn.timeout_usec, age)
                        ELSE spawn.timeout_usec
            io == spawn.fd_stdout /\ spawn.fd_stderr
        IN  /\ now' = usec
            /\ spawn' = [spawn EXCEPT !.timeout_warn_usec = warnLeft,
                                      !.timeout_usec = killLeft]
            /\ IF io
               THEN /\ pc' = "loop"
                    /\ warnAt' = IF armWarn THEN TimerDeadline(usec, warnLeft) ELSE NoTimer
                    /\ killAt' = IF armKill THEN TimerDeadline(usec, killLeft) ELSE NoTimer
                    /\ ret' = ret
               ELSE /\ pc' = "spawn_ret"
                    /\ warnAt' = NoTimer /\ killAt' = NoTimer
                    /\ ret' = -9       \* -EBADF
    /\ UNCHANGED <<evvars, runvars, trace, birth, cfgvars, fmtvars, permvars, iovars, caller, child, plan, si,
                   killFired, warnFired, killHit, exit_code>>

\* The child writes its next byte to its stdout: into the pipe when there is
\* one and it has room, to /dev/null when the pipe was not created.
ChildWrites ==
    /\ pc \in {"wait", "loop"}
    /\ child = "running" /\ written < total
    /\ spawn.fd_stdout => Len(outpipe) < PipeSize
    /\ written' = written + 1
    /\ outpipe' = IF spawn.fd_stdout THEN Append(outpipe, written + 1) ELSE outpipe
    /\ UNCHANGED <<pc, evvars, runvars, trace, now, birth, cfgvars, fmtvars, permvars,
                   spvars, result, result_len, total>>

\* The child terminates by itself, at any moment after the fork once it has
\* written its output.
ChildTerminates ==
    /\ pc \in {"wait", "loop"}
    /\ child = "running" /\ plan # "never"
    /\ written = total
    /\ child' = "zombie"
    /\ si' = PlanInfo(plan)
    /\ UNCHANGED <<pc, evvars, runvars, trace, now, birth, cfgvars, fmtvars, permvars, iovars, caller, spawn, plan,
                   killAt, warnAt, killFired, warnFired, killHit, exit_code, ret>>

WarnDue == warnAt # NoTimer /\ warnFired = 0 /\ now >= warnAt
KillDue == killAt # NoTimer /\ killFired = 0 /\ now >= killAt

\* Time passes while sd_event_loop waits: it does not while a source is ready.
Tick ==
    /\ pc = "loop"
    /\ now < Horizon
    /\ ~WarnDue /\ ~KillDue /\ child # "zombie"
    /\ now' = now + 1
    /\ UNCHANGED <<pc, evvars, runvars, trace, birth, cfgvars, fmtvars, permvars, iovars, spvars>>

\* on_spawn_timeout_warning: logs.
OnSpawnTimeoutWarning ==
    /\ pc = "loop"
    /\ WarnDue
    /\ warnFired' = warnFired + 1
    /\ UNCHANGED <<pc, evvars, runvars, trace, now, birth, cfgvars, fmtvars, permvars, iovars, caller, spawn, child,
                   plan, si, killAt, warnAt, killFired, killHit, exit_code, ret>>

\* on_spawn_timeout: kill_and_sigcont(pid, SIGKILL), a log line, return 1. The
\* signal ends a running child; a child that has already terminated keeps the
\* status it terminated with.
OnSpawnTimeout ==
    /\ pc = "loop"
    /\ KillDue
    /\ killFired' = killFired + 1
    /\ IF child = "running"
       THEN /\ child' = "zombie"
            /\ si' = [code |-> "CLD_KILLED", status |-> 9]
            /\ killHit' = TRUE
       ELSE UNCHANGED <<child, si, killHit>>
    /\ UNCHANGED <<pc, evvars, runvars, trace, now, birth, cfgvars, fmtvars, permvars, iovars, caller, spawn, plan,
                   killAt, warnAt, warnFired, exit_code, ret>>

\* on_spawn_sigchld: the child source fires for the terminated child and calls
\* sd_event_exit; sd_event_loop dispatches no other source after that and
\* returns the exit code, which spawn_wait and udev_event_spawn return. The io
\* and child sources are added with the same, default priority (their
\* sd_event_source is not kept), so a ready pipe does not hold this source back.
OnSpawnSigchld ==
    /\ pc = "loop"
    /\ child = "zombie"
    /\ child' = "reaped"
    /\ exit_code' = SigchldExitCode(si, spawn.accept_failure)
    /\ pc' = "spawn_ret"
    /\ ret' = exit_code'
    \* udev_event_spawn: result[spawn.result_len] = '\0' unless spawn_wait failed
    /\ result' = IF spawn.result /\ ret' >= 0
                 THEN [result EXCEPT ![result_len + 1] = NUL]
                 ELSE result
    /\ UNCHANGED <<evvars, runvars, trace, now, birth, cfgvars, fmtvars, permvars,
                   result_len, outpipe, written, total, caller, spawn, plan,
                   si, killAt, warnAt, killFired, warnFired, killHit>>

\* read(2) on a non-blocking pipe holding avail bytes, count bytes asked for.
ReadLen(avail, count) == IF avail < count THEN avail ELSE count

\* A pipe end is ready for on_spawn_io when it holds bytes or its writer, the
\* child, is gone.
StdoutReady == spawn.fd_stdout /\ (outpipe # <<>> \/ child # "running")
StderrReady == spawn.fd_stderr /\ child # "running"

\* on_spawn_io: one read of at most size - 1 bytes, into the result buffer at
\* result_len for stdout with a result buffer, into buf otherwise; p[l] = '\0';
\* result_len += l. The bytes read into buf are logged and dropped.
OnSpawnIo ==
    /\ pc = "loop"
    /\ \E fd \in {"stdout", "stderr"} :
        /\ IF fd = "stdout" THEN StdoutReady ELSE StderrReady
        /\ IF fd = "stdout" /\ spawn.result
           THEN LET l == ReadLen(Len(outpipe), (Len(result) - result_len) - 1)
                IN  /\ result' = [i \in 1..Len(result) |->
                                     IF i > result_len /\ i <= result_len + l
                                     THEN outpipe[i - result_len]
                                     ELSE IF i = result_len + l + 1 THEN NUL
                                     ELSE result[i]]
                    /\ result_len' = result_len + l
                    /\ outpipe' = SubSeq(outpipe, l + 1, Len(outpipe))
           ELSE IF fd = "stdout"
           THEN LET l == ReadLen(Len(outpipe), BufSize - 1)
                IN  /\ outpipe' = SubSeq(outpipe, l + 1, Len(outpipe))
                    /\ UNCHANGED <<result, result_len>>
           ELSE UNCHANGED <<result, result_len, outpipe>>
    /\ UNCHANGED <<pc, evvars, runvars, trace, now, birth, cfgvars, fmtvars, permvars,
                   spvars, written, total>>

SpawnerNext ==
    \/ UdevEventSpawn \/ SpawnWait \/ ChildTerminates \/ Tick
    \/ OnSpawnTimeoutWarning \/ OnSpawnTimeout \/ OnSpawnSigchld \/ OnSpawnIo

\* The spawner together with a child that writes to its stdout.
IoNext == SpawnerNext \/ ChildWrites

\* --------------------------------------------------------- the formatter
Max(a, b) == IF a > b THEN a ELSE b
IsSpace(c) == c \in {" ", "\t", "\n"}
Digits == <<"0", "1", "2", "3", "4", "5", "6", "7", "8", "9">>
IsDigit(c) == \E d \in 1..10 : Digits[d] = c
DigitVal(c) == (CHOOSE d \in 1..10 : Digits[d] = c) - 1

\* sprintf(num, "%u", n)
RECURSIVE Decimal(_)
Decimal(n) ==
    IF n < 10 THEN <<Digits[n + 1]>>
    ELSE Append(Decimal(n \div 10), Digits[(n % 10) + 1])

\* strtoul(attr, &rest, 10) of a string that starts with digits or with
\* something that is not a number: the value of the leading digits, 0 when
\* there are none, and the rest of the string.
RECURSIVE DigitsValue(_)
DigitsValue(ds) ==
    IF ds = <<>> THEN 0
    ELSE 10 * DigitsValue(SubSeq(ds, 1, Len(ds) - 1)) + DigitVal(ds[Len(ds)])
Strtoul(str) ==
    LET k == CHOOSE n \in 0..Len(str) :
                 /\ \A j \in 1..n : IsDigit(str[j])
                 /\ n < Len(str) => ~IsDigit(str[n + 1])
    IN  [val |-> DigitsValue(SubSeq(str, 1, k)), rest |-> SubSeq(str, k + 1, Len(str))]

\* The names of the token table, "/dev/", "/dev" and "/sys".
DEVNODE_NAME == <<"d", "e", "v", "n", "o", "d", "e">>
TEMPNODE_NAME == <<"t", "e", "m", "p", "n", "o", "d", "e">>
ATTR_NAME == <<"a", "t", "t", "r">>
SYSFS_NAME == <<"s", "y", "s", "f", "s">>
ENV_NAME == <<"e", "n", "v">>
KERNEL_NAME == <<"k", "e", "r", "n", "e", "l">>
NUMBER_NAME == <<"n", "u", "m", "b", "e", "r">>
DRIVER_NAME == <<"d", "r", "i", "v", "e", "r">>
DEVPATH_NAME == <<"d", "e", "v", "p", "a", "t", "h">>
ID_NAME == <<"i", "d">>
MAJOR_NAME == <<"m", "a", "j", "o", "r">>
MINOR_NAME == <<"m", "i", "n", "o", "r">>
RESULT_NAME == <<"r", "e", "s", "u", "l", "t">>
PARENT_NAME == <<"p", "a", "r", "e", "n", "t">>
NAME_NAME == <<"n", "a", "m", "e">>
LINKS_NAME == <<"l", "i", "n", "k", "s">>
ROOT_NAME == <<"r", "o", "o", "t">>
SYS_NAME == <<"s", "y", "s">>
DEV_PREFIX == <<"/", "d", "e", "v", "/">>
ROOT_VALUE == <<"/", "d", "e", "v">>
SYS_VALUE == <<"/", "s", "y", "s">>

\* The token table of udev_event_apply_format, in its order.
map == <<
    [name |-> DEVNODE_NAME,  fmt |-> "N", type |-> "SUBST_DEVNODE"],
    [name |-> TEMPNODE_NAME, fmt |-> "N", type |-> "SUBST_DEVNODE"],
    [name |-> ATTR_NAME,     fmt |-> "s", type |-> "SUBST_ATTR"],
    [name |-> SYSFS_NAME,    fmt |-> "s", type |-> "SUBST_ATTR"],
    [name |-> ENV_NAME,      fmt |-> "E", type |-> "SUBST_ENV"],
    [name |-> KERNEL_NAME,   fmt |-> "k", type |-> "SUBST_KERNEL"],
    [name |-> NUMBER_NAME,   fmt |-> "n", type |-> "SUBST_KERNEL_NUMBER"],
    [name |-> DRIVER_NAME,   fmt |-> "d", type |-> "SUBST_DRIVER"],
    [name |-> DEVPATH_NAME,  fmt |-> "p", type |-> "SUBST_DEVPATH"],
    [name |-> ID_NAME,       fmt |-> "b", type |-> "SUBST_ID"],
    [name |-> MAJOR_NAME,    fmt |-> "M", type |-> "SUBST_MAJOR"],
    [name |-> MINOR_NAME,    fmt |-> "m", type |-> "SUBST_MINOR"],
    [name |-> RESULT_NAME,   fmt |-> "c", type |-> "SUBST_RESULT"],
    [name |-> PARENT_NAME,   fmt |-> "P", type |-> "SUBST_PARENT"],
    [name |-> NAME_NAME,     fmt |-> "D", type |-> "SUBST_NAME"],
    [name |-> LINKS_NAME,    fmt |-> "L", type |-> "SUBST_LINKS"],
    [name |-> ROOT_NAME,     fmt |-> "r", type |-> "SUBST_ROOT"],
    [name |-> SYS_NAME,      fmt |-> "S", type |-> "SUBST_SYS"] >>

\* startswith(&from[0], prefix), from being str at index i
StartsWith(str, i, prefix) ==
    /\ i + Len(prefix) - 1 <= Len(str)
    /\ SubSeq(str, i, i + Len(prefix) - 1) = prefix

\* The first entry of map whose name starts the text at index i, 0 if none.
FirstName(str, i) ==
    LET hits == {m \in 1..Len(map) : StartsWith(str, i, map[m].name)}
    IN  IF hits = {} THEN 0 ELSE CHOOSE m \in hits : \A h \in hits : m <= h

\* The first entry of map whose format character is the one at index i.
FirstFmt(str, i) ==
    LET hits == {m \in 1..Len(map) : i <= Len(str) /\ map[m].fmt = str[i]}
    IN  IF hits = {} THEN 0 ELSE CHOOSE m \in hits : \A h \in hits : m <= h

\* The first index from i on at which str has a character of the class, or
\* does not have one; Len(str) + 1 stands for the terminating NUL.
NextSpace(str, i) ==
    CHOOSE p \in i..(Len(str) + 1) :
        /\ p <= Len(str) => IsSpace(str[p])
        /\ \A q \in i..(p - 1) : ~IsSpace(str[q])
NextNonSpace(str, i) ==
    CHOOSE p \in i..(Len(str) + 1) :
        /\ p <= Len(str) => ~IsSpace(str[p])
        /\ \A q \in i..(p - 1) : IsSpace(str[q])

\* strpcpy(&s, l, value): what is copied to s. With room for the whole value
\* and its NUL the value is copied; otherwise its first l - 1 characters; with
\* l = 0 nothing is written.
Strpcpy(l, value) ==
    IF l = 0 THEN <<>>
    ELSE IF Len(value) >= l THEN SubSeq(value, 1, l - 1)
    ELSE value

\* util_replace_whitespace(s, s, len): leading and trailing whitespace goes, a
\* run of whitespace inside becomes one '_'.
RECURSIVE CollapseSpace(_, _)
CollapseSpace(str, i) ==
    IF i > Len(str) THEN <<>>
    ELSE IF IsSpace(str[i])
    THEN IF NextNonSpace(str, i) > Len(str) THEN <<>>
         ELSE <<"_">> \o CollapseSpace(str, NextNonSpace(str, i))
    ELSE <<str[i]>> \o CollapseSpace(str, i + 1)
UtilReplaceWhitespace(str) == CollapseSpace(str, NextNonSpace(str, 1))

\* The device the formatter looks at: no parent, no links, no sysfs
\* attribute, one property.
DevPath == <<"/">> \o sysname
Devnode == IF major # 0 THEN DEV_PREFIX \o sysname ELSE NullStr
DevMinor == IF major # 0 THEN 1 ELSE 0
SysNum ==
    LET k == CHOOSE n \in 0..Len(sysname) :
                 /\ \A j \in (Len(sysname) - n + 1)..Len(sysname) : IsDigit(sysname[j])
                 /\ n < Len(sysname) => ~IsDigit(sysname[Len(sysname) - n])
    IN  IF k = 0 THEN NullStr ELSE SubSeq(sysname, Len(sysname) - k + 1, Len(sysname))
PropertyValue(key) == IF key = <<"m">> THEN <<"a", " ", " ", "b">> ELSE NullStr

\* SUBST_RESULT, the loop "while (--i)": cpos is moved over a part and the
\* whitespace after it, i - 1 times, or until the end of the string.
RECURSIVE SkipParts(_, _, _)
SkipParts(str, cpos, i) ==
    IF i - 1 = 0 THEN [cpos |-> cpos, i |-> 0]
    ELSE LET p == NextNonSpace(str, NextSpace(str, cpos))
         IN  IF p > Len(str) THEN [cpos |-> p, i |-> i - 1]
             ELSE SkipParts(str, p, i - 1)

\* strchr(tmp, ' '): the text up to the first space.
UpToSpace(tmp) ==
    LET p == CHOOSE q \in 1..(Len(tmp) + 1) :
                 /\ q <= Len(tmp) => tmp[q] = " "
                 /\ \A r \in 1..(q - 1) : tmp[r] # " "
    IN  SubSeq(tmp, 1, p - 1)

\* SUBST_RESULT: the value copied, NullStr when nothing is copied.
SubstResult(attr) ==
    IF program_result = NullStr THEN NullStr
    ELSE LET n == IF attr = NullStr THEN [val |-> 0, rest |-> <<>>] ELSE Strtoul(attr)
         IN  IF n.val > 0
             THEN LET at == SkipParts(program_result, 1, n.val)
                      tmp == SubSeq(program_result, at.cpos, Len(program_result))
                  IN  IF at.i > 0 THEN NullStr
                      ELSE IF n.rest # <<>> /\ n.rest[1] = "+" THEN tmp
                      ELSE UpToSpace(tmp)
             ELSE program_result

\* subst_format_var: the value handed to strpcpy for a type and an attribute,
\* NullStr when the case breaks without copying.
SubstValue(type, attr) ==
    CASE type = "SUBST_DEVPATH" -> DevPath
      [] type = "SUBST_KERNEL" -> sysname
      [] type = "SUBST_KERNEL_NUMBER" -> SysNum
      [] type = "SUBST_MAJOR" -> Decimal(major)
      [] type = "SUBST_MINOR" -> Decimal(DevMinor)
      [] type = "SUBST_RESULT" -> SubstResult(attr)
      [] type = "SUBST_DEVNODE" -> Devnode
      [] type = "SUBST_NAME" ->
             IF name # NoName THEN name
             ELSE IF Devnode # NullStr
             THEN SubSeq(Devnode, Len(DEV_PREFIX) + 1, Len(Devnode))
             ELSE sysname
      [] type = "SUBST_ROOT" -> ROOT_VALUE
      [] type = "SUBST_SYS" -> SYS_VALUE
      [] type = "SUBST_ENV" -> IF attr = NullStr THEN NullStr ELSE PropertyValue(attr)
      [] OTHER -> NullStr   \* no parent, no links, no sysfs attribute

\* udev_event_apply_format, "copy": a character is copied only with room for
\* it and for the terminating NUL.
CanCopy_nonul(l) == l >= 1
CanCopy(l) == l >= 2

\* udev_event_apply_format: l -= subst_len
SubstAdvance_keep(l, subst_len) == l
SubstAdvance(l, subst_len) == l - subst_len

\* udev_event_apply_format, "out": s[0] = '\0'; return l. out is what dest
\* holds before that NUL, hw the highest index of dest written to.
FormatOut(st) == [out |-> st.out, l |-> st.l, hw |-> Max(st.hw, Len(st.out) + 1)]

RECURSIVE FormatScan(_, _, _)

\* udev_event_apply_format, "copy".
FormatCopy(from, i, st) ==
    IF ~CanCopy(st.l) THEN FormatOut(st)
    ELSE FormatScan(from, i + 1,
                    [out |-> Append(st.out, from[i]), l |-> st.l - 1,
                     hw |-> Max(st.hw, Len(st.out) + 1)])

\* udev_event_apply_format: subst_format_var, util_replace_whitespace, and the
\* advance of s and l.
FormatValue(from, i, type, attr, st) ==
    LET value == SubstValue(type, attr)
        copied == IF value = NullStr THEN <<>> ELSE Strpcpy(st.l, value)
        hw == IF value # NullStr /\ st.l > 0
              THEN Max(st.hw, Len(st.out) + Len(copied) + 1)
              ELSE st.hw
        kept == IF replace_whitespace /\ type # "SUBST_RESULT"
                THEN UtilReplaceWhitespace(copied)
                ELSE copied
    IN  FormatScan(from, i,
                   [out |-> st.out \o kept, l |-> SubstAdvance(st.l, Len(kept)),
                    hw |-> hw])

\* udev_event_apply_format, "subst": the {attr} after the token. Without the
\* closing brace the expansion ends.
FormatSubst_openbrace(from, i, type, st) ==
    IF i <= Len(from) /\ from[i] = "{"
    THEN LET closing == {j \in (i + 1)..Len(from) : from[j] = "}"}
             j == CHOOSE c \in closing : \A d \in closing : c <= d
         IN  IF closing = {} THEN FormatValue(from, i, type, NullStr, st)
             ELSE FormatValue(from, j + 1, type, SubSeq(from, i + 1, j - 1), st)
    ELSE FormatValue(from, i, type, NullStr, st)
FormatSubst(from, i, type, st) ==
    IF i <= Len(from) /\ from[i] = "{"
    THEN LET closing == {j \in (i + 1)..Len(from) : from[j] = "}"}
             j == CHOOSE c \in closing : \A d \in closing : c <= d
         IN  IF closing = {} THEN FormatOut(st)
             ELSE FormatValue(from, j + 1, type, SubSeq(from, i + 1, j - 1), st)
    ELSE FormatValue(from, i, type, NullStr, st)

\* udev_event_apply_format, the scan of the template from index i.
FormatScan(from, i, st) ==
    IF i > Len(from) THEN FormatOut(st)
    ELSE IF from[i] = "$"
    THEN IF i < Len(from) /\ from[i + 1] = "$" THEN FormatCopy(from, i + 1, st)
         ELSE LET m == FirstName(from, i + 1)
              IN  IF m # 0
                  THEN FormatSubst(from, i + Len(map[m].name) + 1, map[m].type, st)
                  ELSE FormatCopy(from, i, st)
    ELSE IF from[i] = "%"
    THEN IF i < Len(from) /\ from[i + 1] = "%" THEN FormatCopy(from, i + 1, st)
         ELSE LET m == FirstFmt(from, i + 1)
              IN  IF m # 0
                  THEN FormatSubst(from, i + 2, map[m].type, st)
                  ELSE FormatCopy(from, i, st)
    ELSE FormatCopy(from, i, st)

UdevEventApplyFormat(from, capacity) ==
    FormatScan(from, 1, [out |-> <<>>, l |-> capacity, hw |-> 0])

\* A caller expands its template into its buffer.
ApplyFormat ==
    /\ fpc = "call"
    /\ fpc' = "done"
    /\ dest' = UdevEventApplyFormat(src, size)
    /\ UNCHANGED <<pc, evvars, runvars, trace, now, birth, cfgvars, spvars, permvars,
                   iovars, src, size, replace_whitespace, program_result>>

FormatNext == ApplyFormat

\* The templates: up to MaxParts pieces, each a character or a token name.
Fragments ==
    {<<"$">>, <<"%">>, KERNEL_NAME, <<"k">>, <<"c">>, <<"E">>, <<"x">>, <<"{">>,
     <<"%", "k">>, <<"{", "2", "}">>, <<"{", "2", "+", "}">>, <<"{", "m", "}">>}
RECURSIVE TemplatesOf(_)
TemplatesOf(n) ==
    IF n = 0 THEN {<<>>}
    ELSE LET shorter == TemplatesOf(n - 1)
         IN  shorter \cup {t \o f : t \in shorter, f \in Fragments}
Templates == TemplatesOf(MaxParts)

\* event->program_result: NULL, parts with a tab between the second and the
\* third, parts two spaces apart, lines.
Results ==
    {NullStr, <<"a", " ", "b", "\t", "c">>, <<"a", " ", " ", "b">>,
     <<"a", "\n", "b", " ", "c">>}

\* ------------------------------------------------------ specifications
EventIdle ==
    /\ action = "add" /\ kname = KernelName /\ sysname = KernelName /\ name = NoName
    /\ dev_db = FALSE /\ devTags = {} /\ dbFile = FALSE /\ tagIndex = {}
    /\ watch = FALSE /\ initialized = FALSE /\ rulesErr = FALSE
    /\ run_list = <<>> /\ cur = 0 /\ executed = <<>>
    /\ trace = <<>>

\* No result buffer, and commands that write nothing.
IoIdle == result = <<>> /\ total = 0

\* Rules without OWNER, GROUP and MODE keys, before any event.
PermIdle ==
    /\ rules = "basic" /\ perm = NoPerm /\ devnode = NoDevnode /\ node_add = NoNodeAdd

\* udev_event_apply_format is not being called.
FmtIdle ==
    /\ fpc = "idle" /\ src = <<>> /\ size = 1 /\ replace_whitespace = FALSE
    /\ program_result = NullStr /\ dest = NoDest

\* The worker: a device that has just appeared, and the daemon's settings.
Init ==
    /\ pc = "idle"
    /\ \E k \in DeviceKinds : major = k[1] /\ ifindex = k[2]
    /\ subsystem \in BOOLEAN
    /\ EventIdle
    /\ now = 0 /\ birth = 0
    /\ timeout_usec = 2
    /\ timeout_warn_usec = 1
    /\ logInfo \in BOOLEAN
    /\ SpawnIdle
    /\ IoIdle /\ PermIdle /\ FmtIdle

Next ==
    \/ NewEvent \/ ExecuteRules
    \/ RemoveDb \/ RemoveRules \/ RemoveNode
    \/ CloneDb \/ ApplyRules \/ RenameNetif \/ NodeApply \/ DbWrite
    \/ ExecuteRun \/ RunBuiltin \/ RunExternal \/ RunExternalReturned \/ RunDone
    \/ SpawnerNext

Spec == Init /\ [][Next]_vars

\* The non-remove branch of udev_event_execute_rules for a block device or a
\* network interface, with rules that set permissions, every ownership the
\* kernel may supply, and a node manager that may fail.
NodeInit ==
    /\ pc = "exec"
    /\ \E k \in {<<8, 0, DiskName>>, <<0, 2, KernelName>>} :
           major = k[1] /\ ifindex = k[2] /\ kname = k[3] /\ sysname = k[3]
    /\ subsystem = TRUE
    /\ action \in Actions \ {"remove"}
    /\ name = NoName
    /\ dev_db = FALSE /\ devTags = {} /\ initialized = FALSE /\ rulesErr = FALSE
    /\ dbFile \in BOOLEAN /\ tagIndex = {} /\ watch \in {FALSE, major # 0}
    /\ run_list = <<>> /\ cur = 0 /\ executed = <<>>
    /\ trace = <<>>
    /\ now = 0 /\ birth = 0
    /\ timeout_usec = 2
    /\ timeout_warn_usec = 1
    /\ logInfo = FALSE
    /\ SpawnIdle
    /\ IoIdle /\ FmtIdle
    /\ rules = "perms" /\ perm = NoPerm /\ node_add = NoNodeAdd
    /\ \E u \in 0..MaxId, g \in 0..MaxId, m \in {0, Mode0640}, f \in BOOLEAN :
           devnode = IF major # 0
                     THEN [uid |-> u, gid |-> g, mode |-> m, fails |-> f]
                     ELSE NoDevnode

NodeNext ==
    \/ ExecuteRules
    \/ CloneDb \/ ApplyRules \/ RenameNetif \/ NodeApply \/ DbWrite

NodeSpec == NodeInit /\ [][NodeNext]_vars

\* udev_event_spawn alone, called with every combination of its arguments by
\* an event born at birth.
SpawnInit ==
    /\ pc = "spawn"
    /\ major = 8 /\ ifindex = 0 /\ subsystem = TRUE
    /\ EventIdle
    /\ birth \in 0..1 /\ now = birth
    /\ timeout_usec \in 0..MaxTimeout
    /\ timeout_warn_usec \in 0..MaxTimeout
    /\ logInfo \in BOOLEAN
    /\ caller = "rules"
    /\ \E accept \in BOOLEAN, res \in BOOLEAN :
        /\ spawn = SpawnArgs(KernelName, accept, timeout_usec, timeout_warn_usec, res)
        /\ result = IF res THEN <<Junk>> ELSE <<>>
    /\ child = "none" /\ plan = "never"
    /\ si = NoSi /\ killAt = NoTimer /\ warnAt = NoTimer
    /\ killFired = 0 /\ warnFired = 0 /\ killHit = FALSE
    /\ exit_code = 0 /\ ret = 0
    /\ result_len = 0 /\ outpipe = <<>> /\ written = 0 /\ total = 0
    /\ PermIdle /\ FmtIdle

SpawnSpec == SpawnInit /\ [][SpawnerNext]_vars

\* Command lines with no word, one word and two words.
Commands ==
    {<<>>, <<" ">>, <<" ", "\t">>, KernelName, <<"a", " ", "b">>, <<" ", "a">>}

\* udev_event_spawn called with every command line of Commands.
ArgvInit ==
    /\ pc = "spawn"
    /\ major = 8 /\ ifindex = 0 /\ subsystem = TRUE
    /\ EventIdle
    /\ birth = 0 /\ now = 0
    /\ timeout_usec \in 0..MaxTimeout
    /\ timeout_warn_usec \in 0..1
    /\ logInfo \in BOOLEAN
    /\ caller = "rules"
    /\ \E cmd \in Commands, res \in BOOLEAN :
        /\ spawn = SpawnArgs(cmd, FALSE, timeout_usec, timeout_warn_usec, res)
        /\ result = IF res THEN <<Junk>> ELSE <<>>
    /\ child = "none" /\ plan = "never"
    /\ si = NoSi /\ killAt = NoTimer /\ warnAt = NoTimer
    /\ killFired = 0 /\ warnFired = 0 /\ killHit = FALSE
    /\ exit_code = 0 /\ ret = 0
    /\ result_len = 0 /\ outpipe = <<>> /\ written = 0 /\ total = 0
    /\ PermIdle /\ FmtIdle

ArgvSpec == ArgvInit /\ [][SpawnerNext]_vars

\* udev_event_spawn called by the rules for a program whose output is wanted:
\* a result buffer of ressize bytes holding what the caller left in it, and a
\* command that writes total bytes to its stdout.
IoInit ==
    /\ pc = "spawn"
    /\ major = 8 /\ ifindex = 0 /\ subsystem = TRUE
    /\ EventIdle
    /\ birth = 0 /\ now = 0
    /\ timeout_usec \in {0, MaxTimeout}
    /\ timeout_warn_usec = 1
    /\ logInfo \in BOOLEAN
    /\ caller = "rules"
    /\ spawn = SpawnArgs(KernelName, TRUE, timeout_usec, timeout_warn_usec, TRUE)
    /\ \E ressize \in 1..MaxResult, b \in {NUL, Junk} : result = [i \in 1..ressize |-> b]
    /\ total \in 0..MaxOut
    /\ child = "none" /\ plan = "never"
    /\ si = NoSi /\ killAt = NoTimer /\ warnAt = NoTimer
    /\ killFired = 0 /\ warnFired = 0 /\ killHit = FALSE
    /\ exit_code = 0 /\ ret = 0
    /\ result_len = 0 /\ outpipe = <<>> /\ written = 0
    /\ PermIdle /\ FmtIdle

IoSpec == IoInit /\ [][IoNext]_vars

\* udev_event_apply_format called for a disk, with every template, a small or
\* a large dest, and what an earlier program left as its result.
FormatInit ==
    /\ pc = "idle"
    /\ major = 8 /\ ifindex = 0 /\ subsystem = TRUE
    /\ action = "add" /\ kname = DiskName /\ sysname = DiskName /\ name = NoName
    /\ dev_db = FALSE /\ devTags = {} /\ dbFile = FALSE /\ tagIndex = {}
    /\ watch = FALSE /\ initialized = FALSE /\ rulesErr = FALSE
    /\ run_list = <<>> /\ cur = 0 /\ executed = <<>>
    /\ trace = <<>>
    /\ now = 0 /\ birth = 0
    /\ timeout_usec = 0 /\ timeout_warn_usec = 0 /\ logInfo = FALSE
    /\ SpawnIdle /\ IoIdle /\ PermIdle
    /\ fpc = "call"
    /\ src \in Templates
    /\ size \in (1..MaxSize) \cup {UTIL_PATH_SIZE}
    /\ replace_whitespace \in BOOLEAN
    /\ program_result \in Results
    /\ dest = NoDest

FormatSpec == FormatInit /\ [][FormatNext]_vars

\* The child is scheduled and the loop dispatches a ready pipe end: a byte that
\* can be written is written, a read that takes bytes out of the pipe is made.
IoLive == IoSpec /\ WF_vars(ChildWrites) /\ WF_vars(OnSpawnIo)

\* ================================================================ claims
\* The positions at which udev_event_execute_rules has returned.
Returned == {"ret", "run", "spawn", "wait", "loop", "spawn_ret", "done"}

\* The place of a collaborator call in the order of the non-remove path.
Steps == {"read_db", "delete_db", "node_remove", "watch_end", "rules", "rename",
          "rename_warn", "update_old_links", "node_add", "tag_index", "update_db", "run"}
Rank == [step \in Steps |->
    CASE step = "watch_end" -> 0
      [] step = "rules" -> 1
      [] step = "rename" -> 2
      [] step = "rename_warn" -> 3
      [] step = "update_old_links" -> 4
      [] step = "node_add" -> 5
      [] step = "tag_index" -> 6
      [] step = "update_db" -> 7
      [] step = "run" -> 8
      [] OTHER -> 9]

\* C1: for a non-remove action the calls of one event are made in the order
\* rules application, interface rename, node apply (update_old_links, then
\* node_add), tag index and db write, and the run list is executed only after
\* the db write: every call has a later place than the call before it (only
\* run-list entries follow one another), nothing is called before the rules
\* but udev_watch_end, and the run list starts right after the db write.
C1_StepOrder ==
    action # "remove" =>
        \A i \in 1..Len(trace) :
            /\ i > 1 => \/ Rank[trace[i - 1]] < Rank[trace[i]]
                        \/ trace[i - 1] = "run" /\ trace[i] = "run"
            /\ (i = 1 /\ trace[i] # "watch_end") => trace[i] = "rules"
            /\ (i > 1 /\ trace[i - 1] = "watch_end") => trace[i] = "rules"
            /\ (i > 1 /\ trace[i] = "update_db") => trace[i - 1] = "tag_index"
            /\ (i > 1 /\ trace[i] = "run") => trace[i - 1] \in {"update_db", "run"}

\* C1 witness: a non-remove event of a device with a node is finished, having
\* gone through node apply, the db write and the run list.
C1_Witness ==
    /\ pc = "done" /\ action # "remove"
    /\ Has(trace, "update_old_links") /\ Has(trace, "node_add")
    /\ Has(trace, "update_db") /\ Has(trace, "run")

\* The place of the first call of x in the trace, 0 when x was not called.
Pos(x) == IF Has(trace, x) THEN CHOOSE i \in 1..Len(trace) : trace[i] = x ELSE 0

\* C2: for a remove action the tag index entries and the db file are deleted
\* before the rules are applied (when the rules are applied neither exists),
\* and udev_node_remove is called only after the rules have been applied.
C2_RemoveOrder ==
    action = "remove" =>
        /\ Pos("rules") > 0 =>
               /\ 0 < Pos("tag_index") /\ Pos("tag_index") < Pos("rules")
               /\ 0 < Pos("delete_db") /\ Pos("delete_db") < Pos("rules")
        /\ Pos("node_remove") > 0 =>
               0 < Pos("rules") /\ Pos("rules") < Pos("node_remove")
        /\ pc = "rm_rules" => ~dbFile /\ tagIndex = {}
        /\ pc = "rm_node" => Pos("rules") > 0

\* C2 witness: a remove event of a device with a node is finished; its rules
\* tagged the device and queued commands, and the node was removed.
C2_Witness ==
    /\ pc = "done" /\ action = "remove"
    /\ Has(trace, "node_remove") /\ Has(trace, "delete_db")
    /\ run_list # <<>>

\* C3: for a remove action, once udev_event_execute_rules has returned, the
\* tag index holds no entry for the device and the db file does not exist,
\* whatever the rules did.
C3_RemoveLeavesNothing ==
    (action = "remove" /\ pc \in Returned) => (tagIndex = {} /\ ~dbFile)

\* C3 witness: the orchestrator has returned from a remove event in which the
\* db was deleted and the rules tagged the device and queued a command.
C3_Witness ==
    /\ pc = "ret" /\ action = "remove"
    /\ Has(trace, "delete_db") /\ Has(trace, "rules")
    /\ devTags # {} /\ run_list # <<>>

\* C4: the db is rewritten if and only if the event takes the non-remove path
\* and the rules engine met no error; after an error of the rules engine none
\* of rename, node apply, tag index update, db write and mark-initialized is
\* made.
C4_SkipAfterRulesError ==
    (pc \in Returned /\ subsystem) =>
        /\ Has(trace, "update_db") <=> (action # "remove" /\ ~rulesErr)
        /\ (action # "remove" /\ rulesErr) =>
               /\ ~Has(trace, "rename") /\ ~Has(trace, "node_add")
               /\ ~Has(trace, "tag_index") /\ ~initialized

\* C5: the run list is executed in the order of insertion, the k-th entry
\* attempted being the k-th inserted, each command expanded against the event
\* as it is when the entry is run.
C5_InsertionOrder ==
    \A k \in 1..Len(executed) :
        /\ executed[k][1] = k
        /\ executed[k][2] = sysname

\* C6: every entry of run_list is attempted exactly once, whether or not an
\* earlier entry failed: no entry is attempted twice, and when
\* udev_event_execute_run returns every entry has been attempted.
C6_EveryEntryOnce ==
    /\ \A i, j \in 1..Len(executed) : i # j => executed[i][1] # executed[j][1]
    /\ pc = "done" => {executed[k][1] : k \in 1..Len(executed)} = 1..Len(run_list)

\* C6 witness: the run list is done, the first entry attempted was an external
\* command that failed, and another entry was attempted after it.
C6_Witness ==
    /\ pc = "done" /\ Len(executed) >= 2
    /\ executed[1][3] /\ run_list[executed[1][1]] = "external"

\* C7: with a child that never exits by itself and a kill timeout, the wait
\* does not go on past event_birth + timeout_kill: once that moment is reached
\* (also when it already was at the start of the wait) no more time passes in
\* the loop before the child is killed and the spawn returns.
C7_BoundedWait ==
    [][(pc = "loop" /\ plan = "never" /\ timeout_usec > 0
        /\ now >= birth + timeout_usec) => now' = now]_vars

C9_AcceptFailure ==
    (/\ pc = "spawn_ret" /\ child = "reaped" /\ spawn.accept_failure
     /\ si.code = "CLD_EXITED" /\ si.status # 0)
        => ret = si.status

\* C10: with accept_failure false, udev_event_spawn returns 0 if and only if
\* its child terminated by exiting with status 0, and -EIO when the child
\* terminated in any other way.
C10_ZeroIffExitZero ==
    (pc = "spawn_ret" /\ ~spawn.accept_failure /\ child # "none") =>
        /\ ret = 0 <=> (si.code = "CLD_EXITED" /\ si.status = 0)
        /\ (si.code # "none" /\ ~(si.code = "CLD_EXITED" /\ si.status = 0))
               => ret = -EIO

\* C11: with a result buffer of capacity >= 1 and a child forked, whenever
\* on_spawn_io is about to be entered and once udev_event_spawn has returned,
\* result_len is below the capacity and the byte of the buffer at index
\* result_len is NUL.
C11_ResultTerminated ==
    (/\ spawn.result /\ child # "none"
     /\ (pc = "loop" /\ (StdoutReady \/ StderrReady)) \/ pc = "spawn_ret") =>
        /\ result_len < Len(result)
        /\ result[result_len + 1] = NUL

\* C12: once the result buffer is full the spawner goes on taking the child's
\* bytes out of the pipe, so a child left alone (no kill timer) that still has
\* output to write gets to write all of it, however much it is.
C12_OversizeNeverBlocks ==
    (pc = "loop" /\ timeout_usec = 0 /\ child = "running" /\ written < total)
        ~> (written = total \/ pc # "loop")

\* C13: for every template, event, replace_whitespace and capacity >= 1,
\* udev_event_apply_format writes to no index of dest above the capacity, the
\* terminating NUL included, and returns the capacity that remains counting the
\* terminator: the capacity minus the length of the output, at least 1.
C13_FormatBounded ==
    fpc = "done" =>
        /\ dest.hw <= size
        /\ Len(dest.out) + 1 <= size
        /\ dest.l = size - Len(dest.out)
        /\ dest.l >= 1

\* C13 witness: a character was copied and the value substituted after it was
\* cut short, dest being filled to its last byte.
C13_Witness ==
    /\ fpc = "done" /\ size = MaxSize
    /\ src = <<"x", "$">> \o KERNEL_NAME
    /\ Len(dest.out) = size - 1 /\ dest.hw = size

\* C14: for src "$kernel", sysname "sda1" and capacity 3 dest holds "sd" and
\* the NUL, and the value returned is 2, the number of bytes written.
C14_ReturnsWritten ==
    (fpc = "done" /\ src = <<"$">> \o KERNEL_NAME /\ sysname = DiskName /\ size = 3) =>
        /\ dest.out = <<"s", "d">>
        /\ dest.l = 2

\* C14, amended: for src "$kernel", sysname "sda1" and capacity 3 dest holds
\* "sd" and the NUL in its third byte, and the value returned is 1, the
\* capacity that remains counting the terminator; the bytes written are the
\* capacity minus that value, 2.
C14_ReturnsRemaining ==
    (fpc = "done" /\ src = <<"$">> \o KERNEL_NAME /\ sysname = DiskName /\ size = 3) =>
        /\ dest.out = <<"s", "d">>
        /\ dest.hw = 3
        /\ dest.l = 1
        /\ size - dest.l = 2

\* C14 witness: "$kernel" has been expanded for sda1 into a dest of 3 bytes.
C14_Witness ==
    /\ fpc = "done" /\ src = <<"$">> \o KERNEL_NAME /\ sysname = DiskName /\ size = 3
    /\ Len(dest.out) = 2

\* The occurrences of a character in a string, and the pairs cc met when the
\* string is read from the left.
Count(str, c) == Cardinality({i \in 1..Len(str) : str[i] = c})
RECURSIVE Escapes(_, _, _)
Escapes(str, i, c) ==
    IF i >= Len(str) THEN 0
    ELSE IF str[i] = c /\ str[i + 1] = c THEN 1 + Escapes(str, i + 2, c)
    ELSE Escapes(str, i + 1, c)

\* C15: a "$" or "%" of the template reaches the output only as one character
\* for each "$$" or "%%": the output never holds more of them than the
\* template has pairs, and with room for everything and no {attr} it holds
\* exactly as many; a "$" or "%" that starts no token leaves nothing.
C15_OnlyEscapesEmit ==
    fpc = "done" =>
        \A c \in {"$", "%"} :
            /\ Count(dest.out, c) <= Escapes(src, 1, c)
            /\ (size = UTIL_PATH_SIZE /\ Count(src, "{") = 0)
                   => Count(dest.out, c) = Escapes(src, 1, c)

\* The parts of a string split on runs of whitespace: where the n-th part
\* starts (0 when there are fewer parts), the n-th part, and the text from the
\* n-th part to the end.
PartStarts(str) == {i \in 1..Len(str) : ~IsSpace(str[i]) /\ (i = 1 \/ IsSpace(str[i - 1]))}
NthStart(str, n) ==
    LET at == {i \in PartStarts(str) : Cardinality({j \in PartStarts(str) : j <= i}) = n}
    IN  IF at = {} THEN 0 ELSE CHOOSE i \in at : TRUE
NthPart(str, n) ==
    IF NthStart(str, n) = 0 THEN <<>>
    ELSE SubSeq(str, NthStart(str, n), NextSpace(str, NthStart(str, n)) - 1)
FromPart(str, n) ==
    IF NthStart(str, n) = 0 THEN <<>> ELSE SubSeq(str, NthStart(str, n), Len(str))

\* C16: with program_result split on runs of whitespace into parts counted
\* from 1, "%c" gives the whole string, "%c{2}" exactly the second part
\* (nothing when there is none) and "%c{2+}" the text from the start of the
\* second part to the end.
C16_ResultParts ==
    (fpc = "done" /\ program_result # NullStr /\ size = UTIL_PATH_SIZE) =>
        /\ src = <<"%", "c">> => dest.out = program_result
        /\ src = <<"%", "c", "{", "2", "}">> => dest.out = NthPart(program_result, 2)
        /\ src = <<"%", "c", "{", "2", "+", "}">> => dest.out = FromPart(program_result, 2)

\* C17: after udev_event_execute_rules has returned from an event in which
\* the rename of the interface was attempted (an add, ifindex > 0, the rules
\* set a name other than the sysname), the device's sysname is event->name or
\* a warning or error about the rename was logged; and when nothing was logged
\* the name recorded in the device is the name the kernel was given.
C17_RenameRecorded ==
    (pc \in Returned /\ Has(trace, "rename")) =>
        /\ sysname = name \/ Has(trace, "rename_warn")
        /\ ~Has(trace, "rename_warn") => sysname = kname

\* C18: when the loop starts the warn timer is armed exactly if
\* 0 < timeout_warn < timeout_kill and timeout_warn is greater than the
\* event's age; when it fires nothing but the log changes: the child is not
\* signalled, the loop goes on, no timer and no result is touched; and the
\* value the spawn returns from the loop is the one the child's termination
\* gives, whether or not the warning fired.
C18_WarnOnlyLogs ==
    [][/\ (pc = "wait" /\ pc' = "loop") =>
              (warnAt' # NoTimer <=>
                  /\ 0 < spawn.timeout_warn_usec
                  /\ spawn.timeout_warn_usec < spawn.timeout_usec
                  /\ spawn.timeout_warn_usec > now' - spawn.event_birth_usec)
       /\ (pc = "loop" /\ warnFired' # warnFired) =>
              UNCHANGED <<pc, child, si, killAt, killFired, killHit, exit_code, ret,
                          result, result_len, outpipe>>
       /\ (pc = "loop" /\ pc' = "spawn_ret") =>
              ret' = SigchldExitCode(si, spawn.accept_failure)
      ]_vars

\* C18 witness: the warning fired, the kill timer did not, the child then
\* exited with status 0 and the spawn returned 0.
C18_Witness ==
    /\ pc = "spawn_ret" /\ warnFired = 1 /\ killFired = 0
    /\ child = "reaped" /\ si.code = "CLD_EXITED" /\ ret = 0


\* C19: for a non-remove event on a device whose major is not 0, udev_node_add
\* is called with uid = the event's uid if owner_set and the kernel's
\* otherwise, gid likewise, mode = the event's mode if mode_set, else the
\* kernel's if it is > 0, else 0660 if the resulting gid is > 0, else 0600,
\* and apply = the action is "add" or any of the three flags is set; and the
\* statements of the branch leave the three flags as the rules set them.
C19_Flags == <<perm.owner_set, perm.group_set, perm.mode_set>>
C19_NodeAddArgs ==
    [][/\ (pc = "node" /\ action # "remove" /\ major # 0) =>
            LET uid == IF perm.owner_set THEN perm.uid ELSE devnode.uid
                gid == IF perm.group_set THEN perm.gid ELSE devnode.gid
                mode == IF perm.mode_set THEN perm.mode
                        ELSE IF devnode.mode > 0 THEN devnode.mode
                        ELSE IF gid > 0 THEN Mode0660 ELSE Mode0600
                apply == \/ action = "add"
                         \/ perm.owner_set \/ perm.group_set \/ perm.mode_set
            IN  /\ node_add'.called
                /\ node_add'.uid = uid /\ node_add'.gid = gid
                /\ node_add'.mode = mode /\ node_add'.apply = apply
       /\ (pc \in {"exec", "clone", "rename", "node", "db"}) =>
            C19_Flags' = C19_Flags]_vars

\* A change event whose rules set a group only, on a node for which the
\* kernel supplies no mode: the node gets 0660 and the permissions are applied.
C19_Witness ==
    /\ pc = "db" /\ action = "change" /\ node_add.called
    /\ ~perm.owner_set /\ perm.group_set /\ ~perm.mode_set
    /\ perm.gid > 0 /\ devnode.mode = 0 /\ devnode.uid > 0
    /\ node_add.mode = Mode0660 /\ node_add.uid = devnode.uid /\ node_add.apply


\* C20: during a non-remove event on a device whose major is not 0, from the
\* start of the rules' application through udev_node_add and the write of the
\* database no watch is on the node.
C20_WatchSuspended ==
    (action # "remove" /\ major # 0 /\ pc \in {"rules", "rename", "node", "db"}) =>
        ~watch


\* C21: in an event of a device whose major is 0 none of udev_node_add,
\* udev_node_remove, udev_node_update_old_links and udev_watch_end is called,
\* whatever the action; in a remove event of a device whose major is not 0
\* (one that passed the subsystem guard), udev_watch_end has been called
\* when the rules are applied and udev_node_remove when the function returns.
C21_NodeOps == {"node_add", "node_remove", "update_old_links", "watch_end"}
C21_MajorGuards ==
    /\ major = 0 => (\A op \in C21_NodeOps : ~Has(trace, op)) /\ ~node_add.called
    /\ (major # 0 /\ action = "remove" /\ subsystem) =>
           /\ pc \in {"rm_rules", "rm_node", "ret"} => Has(trace, "watch_end")
           /\ pc = "ret" => Has(trace, "node_remove")

\* A network interface, a device without a node, has gone through the whole
\* non-remove branch of an add event, the rename and the db write included.
C21_Witness ==
    /\ major = 0 /\ ifindex > 0 /\ action = "add" /\ pc = "ret"
    /\ Has(trace, "rename") /\ Has(trace, "update_db")


\* C22: on the non-remove path a failed rename of a network interface leaves
\* the device's sysname as it was and is followed by the node apply, and an
\* event in which the rename or the node manager failed still returns with
\* the tag index and the db file written and the device marked initialized.
C22_FailuresNonFatal ==
    /\ [][(pc = "rename" /\ Has(trace', "rename_warn")) =>
              (sysname' = sysname /\ pc' = "node")]_vars
    /\ []((pc = "ret" /\ action # "remove" /\ subsystem
           /\ (Has(trace, "rename_warn") \/ node_add.failed)) =>
              /\ Has(trace, "tag_index") /\ Has(trace, "update_db")
              /\ tagIndex = devTags /\ dbFile /\ initialized)

\* An add event of an interface whose rename failed has returned with the old
\* sysname and a db file.
C22_Witness ==
    /\ pc = "ret" /\ action = "add" /\ ifindex > 0
    /\ Has(trace, "rename_warn") /\ sysname = KernelName /\ name # NoName
    /\ dbFile /\ initialized


\* C23: once udev_event_spawn has acted on a command line without a word, it
\* has returned an error and no child was forked.
C23_EmptyArgvRejected ==
    (StrvSplit(spawn.cmd) = <<>> /\ pc # "spawn") =>
        (pc = "spawn_ret" /\ ret < 0 /\ child = "none")


\* C24: for a template made of plain characters, then a token followed by a
\* `{` that no `}` closes, dest holds the plain characters (as many as fit),
\* the NUL right after them is the last byte written, and nothing of the
\* token nor of what follows it is in dest.
C24_Tokens == {<<"%", "k">>, <<"%", "c">>, <<"%", "E">>, <<"$">> \o KERNEL_NAME}
C24_Unclosed(rest) ==
    /\ \E t \in C24_Tokens : StartsWith(rest, 1, t \o <<"{">>)
    /\ \A k \in 1..Len(rest) : rest[k] # "}"
C24_MissingBraceStops ==
    fpc = "done" =>
        \A i \in 1..Len(src) :
            LET prefix == SubSeq(src, 1, i - 1)
                rest == SubSeq(src, i, Len(src))
                fit == IF Len(prefix) > size - 1 THEN size - 1 ELSE Len(prefix)
            IN  ((\A k \in 1..Len(prefix) : prefix[k] \notin {"$", "%"})
                 /\ C24_Unclosed(rest)) =>
                    /\ dest.out = SubSeq(prefix, 1, fit)
                    /\ dest.hw = fit + 1
                    /\ dest.l = size - fit

\* "x%k{" was expanded into a large buffer: dest holds "x".
C24_Witness ==
    /\ fpc = "done" /\ src = <<"x", "%", "k", "{">> /\ size = UTIL_PATH_SIZE
    /\ dest.out = <<"x">>


\* C25: when udev_event_spawn returns after a successful fork, the child's
\* termination has been collected.
C25_ChildReaped ==
    (pc = "spawn_ret" /\ child # "none") => child = "reaped"


\* C26: when udev_event_spawn returns 0 with a result buffer, the buffer
\* holds the first min(total, capacity - 1) bytes the child wrote to its
\* stdout, in the order written.
C26_ResultComplete ==
    (pc = "spawn_ret" /\ ret = 0 /\ spawn.result /\ child = "reaped") =>
        LET want == IF total < Len(result) - 1 THEN total ELSE Len(result) - 1
        IN  /\ result_len = want
            /\ \A i \in 1..want : result[i] = i

====
